---- MODULE Spec2Model ----
(***************************************************************************)
(* The progressive mask scheduler of src/utils/torch.py: MaskUpdate, with  *)
(* the two operators it composes, dilate_mask (cv2.dilate with a 2x2       *)
(* kernel on every leading-axis slice) and F.dropout followed by the       *)
(* binarisation of its output.                                             *)
(*                                                                         *)
(* A mask is a tensor of numbers, modelled as a function from Cells to     *)
(* Int, in its squeezed shape (slice, row, column); the code adds and      *)
(* subtracts masks, so the values are kept and not collapsed to booleans.  *)
(* The dropout probability p = 1. - 1./step*(iter_drop+1) is kept as the   *)
(* exact fraction <<step - iter_drop - 1, step>>, and a dropout output as  *)
(* exact fractions <<numerator, denominator>>; the rounding of the double  *)
(* 1./step*(iter_drop+1) is not modelled.                                  *)
(*                                                                         *)
(* The masks of a scheduler have every axis of the squeezed shape longer   *)
(* than 1, so that squeeze() removes only the leading batch axes and       *)
(* dilate_mask walks the slices of a 3-D array. The outer loop that calls  *)
(* update is the environment: it calls update(i) with any i, and lets go   *)
(* of the result before it calls again.                                    *)
(*                                                                         *)
(* Further specifications take the parts on their own: SpecThin the        *)
(* thinner, SpecDilate dilate_mask on masks of any number of slices (one   *)
(* included, which squeeze() removes), SpecMask add_rand_mask, SpecLocked  *)
(* update run statement by statement by threads that share a lock, and     *)
(* SpecEarly the EarlyStopping class of the same file.                     *)
(***************************************************************************)
EXTENDS Integers, FiniteSets, Sequences

\* ---------------------------------------------------------------- bounds
NSlices == 2
NRows == 2
NCols == 3
MaxDeltaCells == 2
MaxThreshold == 1
MaxStep == 3
MaxIter == 5
MaxPoints == 3
NThreads == 2
MaxPatience == 2
MaxMinDelta == 1
MaxMetric == 2
MaxBadEpochs == 4

Slices == 0 .. NSlices - 1
Rows == 0 .. NRows - 1
Cols == 0 .. NCols - 1

\* The samples of a mask, by their offset in the contiguous array:
\* Index(s, r, k) is sample (slice s along the leading axis, row r, column k).
Cells == 0 .. NSlices * NRows * NCols - 1

Index(s, r, k) == (s * NRows + r) * NCols + k

SliceOf(c) == c \div (NRows * NCols)

RowOf(c) == (c \div NCols) % NRows

ColOf(c) == c % NCols

\* The arguments the constructor and update are called with. The constructor
\* checks nothing, so step = 0 and threshold < 0 are constructor arguments too.
Thresholds == (0 - 1) .. MaxThreshold
Steps == 0 .. MaxStep
Iterations == (0 - 1) .. MaxIter

Support(x) == {c \in Cells : x[c] # 0}

Zeros == [c \in Cells |-> 0]

Ones == [c \in Cells |-> 1]

OneHot(d) == [c \in Cells |-> IF c = d THEN 1 ELSE 0]

\* The masks a scheduler is constructed with: nothing revealed, one sample
\* revealed (at every position), everything revealed.
InitialMasks == {Zeros, Ones} \cup {OneHot(d) : d \in Cells}

\* The 0/1 tensor that is 1 on S.
Indicator(S) == [c \in Cells |-> IF c \in S THEN 1 ELSE 0]

\* 0/1 tensors with at most k ones.
Masks(k) == {Zeros} \cup {Indicator({f[j] : j \in 1 .. k}) : f \in [1 .. k -> Cells]}

\* The value of a field or local that holds nothing yet.
None == << >>

VARIABLES
    threshold,      \* self.threshold
    step,           \* self.step
    iter,           \* self.iter, the epoch counter
    old_mask,       \* self.old_mask
    new_mask,       \* self.new_mask
    iiter,          \* the argument of the last update call (0 before any)
    outcome,        \* how the last call ended, or that its result is released
    mask_return,    \* what the last update call returned
    delta,          \* the tensor last handed to F.dropout
    p,              \* the probability last handed to F.dropout, <<num, den>>
    mask_add,       \* the last binarised dropout output
    ndilate,        \* how many times dilate_mask has been called
    ordered,        \* the update calls so far had non-decreasing arguments
    repeated,       \* the last call had the argument of the call before it
    mask,           \* the mask argument of dilate_mask or add_rand_mask
    perc,           \* the perc argument of add_rand_mask, <<num, den>>
    mask_res,       \* what dilate_mask returned
    m,              \* what add_rand_mask returned
    lock,           \* the thread that holds the callers' lock, 0 when free
    thread,         \* of every thread: the line it is at and its argument
    stopper,        \* the fields of an EarlyStopping object
    metrics,        \* the argument of the last EarlyStopping.step call
    stop            \* what the last EarlyStopping.step call returned

sched == <<threshold, step, iter, old_mask, new_mask>>

\* The arguments and results of the functions called on their own.
pure == <<mask, perc, mask_res, m>>

vars == <<threshold, step, iter, old_mask, new_mask, iiter, outcome,
          mask_return, delta, p, mask_add, ndilate, ordered, repeated,
          mask, perc, mask_res, m, lock, thread, stopper, metrics, stop>>

\* No function is called on its own.
NoPure == mask = None /\ perc = None /\ mask_res = None /\ m = None

\* The threads that call update under a lock they share.
Threads == 1 .. NThreads

conc == <<lock, thread>>

\* A thread outside update.
IdleThread == [pc |-> "idle", iiter |-> 0]

NoThreads == lock = 0 /\ thread = [t \in Threads |-> IdleThread]

early == <<stopper, metrics, stop>>

\* No EarlyStopping object has been made.
NoEarly == stopper = None /\ metrics = None /\ stop = None

\* ------------------------------------------------------------ dilate_mask
\* cv2.dilate(m, np.ones((2, 2))): the anchor of a 2x2 kernel is its element
\* (1, 1), so dst(y, x) is the maximum of src over rows y-1..y and columns
\* x-1..x that lie inside the plane (the border never wins the maximum).
Footprint(c) ==
    {Index(SliceOf(c), r, k) : r \in {RowOf(c) - 1, RowOf(c)} \cap Rows,
                               k \in {ColOf(c) - 1, ColOf(c)} \cap Cols}

MaxOf(S) == CHOOSE v \in S : \A w \in S : w <= v

\* A dilation whose footprint leaves out the sample itself.
FootprintShifted(c) ==
    {Index(SliceOf(c), r, k) : r \in {RowOf(c) - 1} \cap Rows,
                               k \in {ColOf(c) - 1, ColOf(c)} \cap Cols}

DilateShifted(x) ==
    [c \in DOMAIN x |-> MaxOf({x[d] : d \in FootprintShifted(c)} \cup {0})]

\* The loop of lines 203-205 over the slices of a 3-D array.
dilate_mask(x) ==
    [c \in DOMAIN x |-> MaxOf({x[d] : d \in Footprint(c)})]

\* ------------------------------------------------------- tensor arithmetic
\* The first operand alone, where the difference was meant.
TensorFirst(a, b) == a

TensorSub(a, b) == [c \in Cells |-> a[c] - b[c]]

TensorAdd(a, b) == [c \in Cells |-> a[c] + b[c]]

\* ---------------------------------------------------------------- dropout
\* The sets of elements the Bernoulli draw of F.dropout(x, q) can keep. Only
\* the elements of the support matter: a zero stays zero either way. With
\* q = 0 the input is returned as it is, with q = 1 everything is zeroed.
\* (KeepChoicesInverted reads q as the probability of keeping an element.)
KeepChoicesInverted(x, q) ==
    IF q[1] = 0 THEN {{}}
    ELSE IF q[1] = q[2] THEN {Support(x)}
    ELSE SUBSET Support(x)

KeepChoices(x, q) ==
    IF q[1] = 0 THEN {Support(x)}
    ELSE IF q[1] = q[2] THEN {{}}
    ELSE SUBSET Support(x)

\* F.dropout(x, q) for the draw that keeps `kept`: a kept element is scaled
\* by 1/(1-q), a dropped one is zero.
F_dropout(x, q, kept) ==
    [c \in Cells |-> IF c \in kept THEN <<x[c] * q[2], q[2] - q[1]>>
                     ELSE <<0, 1>>]

\* mask_add[mask_add != 0] = 1
Binarise(y) == [c \in Cells |-> IF y[c][1] # 0 THEN 1 ELSE 0]

\* The binarised thinning of lines 237-238 for one draw.
Thin(x, q, kept) == Binarise(F_dropout(x, q, kept))

\* ----------------------------------------------------------- construction
\* MaskUpdate.__init__: stores its arguments and checks none of them.
Constructed(x, t, s) ==
    /\ threshold = t
    /\ step = s
    /\ iter = 0
    /\ new_mask = x
    /\ old_mask = x
    /\ iiter = 0
    /\ outcome = "constructed"
    /\ mask_return = None
    /\ ndilate = 0
    /\ ordered = TRUE
    /\ repeated = FALSE

Init ==
    /\ \E x \in InitialMasks, t \in Thresholds, s \in Steps :
           Constructed(x, t, s)
    /\ delta = None
    /\ p = None
    /\ mask_add = None
    /\ NoPure
    /\ NoThreads
    /\ NoEarly

\* ----------------------------------------------------------------- update
\* The warm-up test with the boundary iteration on the wrong side.
PastWarmupInclusive(i) == i >= threshold

\* if iiter > self.threshold
PastWarmup(i) == i > threshold

\* The target epoch without its + 1.
iiter_dil_zero_based(i) == (i - threshold) \div step

\* iiter_dil = (iiter - self.threshold) // self.step + 1
iiter_dil(i) == (i - threshold) \div step + 1

\* The boundary test that also fires inside the epoch already reached.
NewEpochInclusive(target) == target >= iter

\* The boundary test that fires on any other epoch, an earlier one included.
NewEpochAnyChange(target) == target # iter

\* if iiter_dil > self.iter
NewEpoch(target) == target > iter

\* The offset counted from the first iteration past the warm-up.
iter_drop_from_first(i) == (i - threshold - 1) % step

\* iter_drop = (iiter - self.threshold) % self.step
iter_drop(i) == (i - threshold) % step

\* The probability without its "1. -".
DropProbabilityComplement(i) == <<iter_drop(i) + 1, step>>

\* p = 1. - 1. / self.step * (iter_drop + 1), as the fraction <<num, den>>
DropProbability(i) == <<step - (iter_drop(i) + 1), step>>

\* The commit old <- new done outside the boundary test.
CommitOldAlways(grow) == new_mask

\* self.old_mask = self.new_mask, inside the boundary test
CommitOld(grow) == IF grow THEN new_mask ELSE old_mask

update(i) ==
    /\ outcome \in {"constructed", "released"}
    /\ iiter' = i
    /\ ordered' = (ordered /\ (outcome = "constructed" \/ i >= iiter))
    /\ repeated' = (outcome # "constructed" /\ i = iiter)
    /\ UNCHANGED <<threshold, step, pure, conc, early>>
    /\ IF ~PastWarmup(i)
       THEN \* mask_return = self.old_mask; return mask_return
            /\ mask_return' = old_mask
            /\ outcome' = "returned"
            /\ delta' = None /\ p' = None /\ mask_add' = None
            /\ UNCHANGED <<iter, old_mask, new_mask, ndilate>>
       ELSE IF step = 0
       THEN \* (iiter - self.threshold) // 0 raises before any assignment
            /\ outcome' = "ZeroDivisionError"
            /\ mask_return' = None
            /\ delta' = None /\ p' = None /\ mask_add' = None
            /\ UNCHANGED <<iter, old_mask, new_mask, ndilate>>
       ELSE LET grow == NewEpoch(iiter_dil(i))
            IN  /\ old_mask' = CommitOld(grow)
                /\ new_mask' = IF grow THEN dilate_mask(old_mask') ELSE new_mask
                /\ iter' = IF grow THEN iiter_dil(i) ELSE iter
                /\ ndilate' = IF grow THEN ndilate + 1 ELSE ndilate
                /\ delta' = TensorSub(new_mask', old_mask')
                /\ p' = DropProbability(i)
                /\ \E kept \in KeepChoices(delta', p') :
                       mask_add' = Thin(delta', p', kept)
                /\ mask_return' = TensorAdd(old_mask', mask_add')
                /\ outcome' = "returned"

\* The outer loop is done with what the call gave it (the mask it applied to
\* its loss, or the exception) and goes on to its next iteration.
release ==
    /\ outcome \in {"returned", "ZeroDivisionError"}
    /\ outcome' = "released"
    /\ mask_return' = None
    /\ delta' = None /\ p' = None /\ mask_add' = None
    /\ UNCHANGED <<sched, iiter, ndilate, ordered, repeated, pure, conc, early>>

Next ==
    \/ \E i \in Iterations : update(i)
    \/ release

Spec == Init /\ [][Next]_vars

\* ------------------------------------------- the thinner as a pure function
Deltas == Masks(MaxDeltaCells)

\* The fractions n/d of [0, 1] with d up to MaxStep.
Probabilities == {q \in (0 .. MaxStep) \X (1 .. MaxStep) : q[1] <= q[2]}

\* mask_add = F.dropout(delta, p); mask_add[mask_add != 0] = 1
thin ==
    /\ outcome = "constructed"
    /\ \E kept \in KeepChoices(delta, p) : mask_add' = Thin(delta, p, kept)
    /\ outcome' = "thinned"
    /\ UNCHANGED <<sched, iiter, mask_return, ndilate, ordered, repeated,
                   delta, p, pure, conc, early>>

\* The inputs of the thinner, with no scheduler call behind them.
InitThin ==
    /\ Constructed(Zeros, 0, 1)
    /\ delta \in Deltas
    /\ p \in Probabilities
    /\ mask_add = None
    /\ NoPure
    /\ NoThreads
    /\ NoEarly

NextThin == thin

SpecThin == InitThin /\ [][NextThin]_vars

\* ------------------------------------------- dilate_mask called on its own
\* A tensor with its shape: the samples are numbered in the order of the
\* contiguous array, sample (s, r, k) of a 3-D tensor being Index(s, r, k).
Tensor(sh, x) == [shape |-> sh, data |-> x]

\* The 0/1 arrays over D with at most k ones.
SparseOver(D, k) ==
    {[c \in D |-> 0]}
        \cup {[c \in D |-> IF c \in {f[j] : j \in 1 .. k} THEN 1 ELSE 0] :
                  f \in [1 .. k -> D]}

\* The masks dilate_mask is handed: 1 .. NSlices planes of NRows x NCols.
DilateArguments ==
    UNION {{Tensor(<<n, NRows, NCols>>, x) :
               x \in SparseOver(0 .. n * NRows * NCols - 1, MaxDeltaCells)} :
           n \in 1 .. NSlices}

LongerThanOne(n) == n # 1

\* mask_np.squeeze(): every axis of length 1 is dropped, the first included.
squeeze(sh) == SelectSeq(sh, LongerThanOne)

\* What the loop leaves of a 2-D array, whose slices mask_np[i] are 1-D rows,
\* when cv2.dilate treats a row as an image one sample high: the maximum over
\* columns x-1..x of that row alone.
DilateRows(x) ==
    [c \in DOMAIN x |->
        MaxOf({x[Index(SliceOf(c), RowOf(c), k)] :
                  k \in {ColOf(c) - 1, ColOf(c)} \cap Cols})]

\* dilate_mask(mask). With three axes left by squeeze() the loop dilates the
\* planes. With two left (the leading axis had length 1) the loop hands the
\* rows to cv2.dilate one by one: the result of a row is either an n x 1
\* image, whose assignment to the 1-D row mask_res[i] raises ValueError, or
\* the row dilated alone.
call_dilate_mask ==
    /\ outcome = "constructed"
    /\ mask # None
    /\ perc = None
    /\ IF Len(squeeze(mask.shape)) = 3
       THEN /\ mask_res' = Tensor(mask.shape, dilate_mask(mask.data))
            /\ outcome' = "dilated"
       ELSE \/ /\ mask_res' = None
               /\ outcome' = "ValueError"
            \/ /\ mask_res' = Tensor(mask.shape, DilateRows(mask.data))
               /\ outcome' = "dilated"
    /\ UNCHANGED <<sched, iiter, mask_return, ndilate, ordered, repeated,
                   delta, p, mask_add, mask, perc, m, conc, early>>

InitDilate ==
    /\ Constructed(Zeros, 0, 1)
    /\ delta = None
    /\ p = None
    /\ mask_add = None
    /\ mask \in DilateArguments
    /\ perc = None
    /\ mask_res = None
    /\ m = None
    /\ NoThreads
    /\ NoEarly

NextDilate == call_dilate_mask

SpecDilate == InitDilate /\ [][NextDilate]_vars

\* ----------------------------------------- add_rand_mask called on its own
\* The shapes of a mask (time, position) and of a mask (time, row, column).
MaskShapes == {<<NSlices, NCols>>, <<NSlices, NRows, NCols>>}

\* The number of samples of one time slice m[0].
PlaneSize(sh) == IF Len(sh) = 2 THEN sh[2] ELSE sh[2] * sh[3]

\* The positions of a time slice, by their offset in the slice; sample c of
\* the array is at position c % PlaneSize of time sample c \div PlaneSize.
Positions(sh) == 0 .. PlaneSize(sh) - 1

\* The masks add_rand_mask is handed: at most MaxPoints positions revealed,
\* at every time sample or at the first one only.
MaskArguments ==
    UNION {{Tensor(sh, [c \in 0 .. sh[1] * PlaneSize(sh) - 1 |->
                          IF c % PlaneSize(sh) \in L
                                /\ (whole \/ c < PlaneSize(sh))
                          THEN 1 ELSE 0]) :
               L \in {S \in SUBSET Positions(sh) : Cardinality(S) <= MaxPoints},
               whole \in BOOLEAN} :
           sh \in MaskShapes}

\* perc, as a fraction n/d of [0, 1] with d up to MaxStep.
Percentages == Probabilities

\* points = np.argwhere(m[0] == 1)
points(x) == {pos \in Positions(x.shape) : x.data[pos] = 1}

\* The number of points deleted, rounded to the nearest integer.
DeleteCountRounded(k, q) == (2 * k * q[1] + q[2]) \div (2 * q[2])

\* int(points.shape[0] * perc)
DeleteCount(k, q) == (k * q[1]) \div q[2]

\* add_rand_mask(mask, perc): rr is any choice of DeleteCount points without
\* replacement; m[:, p[0]] = 0 and m[:, p[0], p[1]] = 0 both zero the chosen
\* position at every time sample of the copy m.
add_rand_mask ==
    /\ outcome = "constructed"
    /\ mask # None
    /\ perc # None
    /\ \E rr \in {S \in SUBSET points(mask) :
                     Cardinality(S)
                         = DeleteCount(Cardinality(points(mask)), perc)} :
           m' = Tensor(mask.shape,
                       [c \in DOMAIN mask.data |->
                           IF c % PlaneSize(mask.shape) \in rr
                           THEN 0 ELSE mask.data[c]])
    /\ outcome' = "masked"
    /\ UNCHANGED <<sched, iiter, mask_return, ndilate, ordered, repeated,
                   delta, p, mask_add, mask, perc, mask_res,
                   conc, early>>

InitMask ==
    /\ Constructed(Zeros, 0, 1)
    /\ delta = None
    /\ p = None
    /\ mask_add = None
    /\ mask \in MaskArguments
    /\ perc \in Percentages
    /\ mask_res = None
    /\ m = None
    /\ NoThreads
    /\ NoEarly

NextMask == add_rand_mask

SpecMask == InitMask /\ [][NextMask]_vars

\* -------------------------------------------- update called under a lock
\* Several threads share one scheduler and call update inside a lock of
\* their own ("with lock: u.update(i)"); a thread runs update one statement
\* at a time. What a call returns stays with its thread and is not recorded.
call == <<iiter, outcome, mask_return, delta, p, mask_add, ordered, repeated>>

At(t, line) == thread[t].pc = line

Goto(t, line) == thread' = [thread EXCEPT ![t].pc = line]

\* The call of thread t ends and its locals are gone.
Leave(t) == thread' = [thread EXCEPT ![t] = IdleThread]

LockFree == lock = 0

\* lock.acquire(), then update(i) is entered.
acquire(t, i) ==
    /\ At(t, "idle")
    /\ LockFree
    /\ lock' = t
    /\ thread' = [thread EXCEPT ![t] = [pc |-> "229", iiter |-> i]]
    /\ UNCHANGED <<sched, ndilate, call, pure, early>>

\* line 229: if iiter > self.threshold, else on to the return of line 241
test_threshold(t) ==
    /\ At(t, "229")
    /\ IF PastWarmup(thread[t].iiter) THEN Goto(t, "230") ELSE Goto(t, "241")
    /\ UNCHANGED <<sched, ndilate, call, pure, early, lock>>

\* lines 230-231: iiter_dil, which raises with step = 0 (the lock is
\* released as the exception leaves the with block), and the boundary test
test_epoch(t) ==
    /\ At(t, "230")
    /\ IF step = 0
       THEN Leave(t) /\ lock' = 0
       ELSE /\ IF NewEpoch(iiter_dil(thread[t].iiter))
               THEN Goto(t, "232") ELSE Goto(t, "235")
            /\ UNCHANGED lock
    /\ UNCHANGED <<sched, ndilate, call, pure, early>>

\* line 232: self.old_mask = self.new_mask
commit_old(t) ==
    /\ At(t, "232")
    /\ old_mask' = CommitOld(TRUE)
    /\ Goto(t, "233")
    /\ UNCHANGED <<threshold, step, iter, new_mask, ndilate, call, pure, early, lock>>

\* line 233: self.new_mask = dilate_mask(self.old_mask)
grow_new(t) ==
    /\ At(t, "233")
    /\ new_mask' = dilate_mask(old_mask)
    /\ ndilate' = ndilate + 1
    /\ Goto(t, "234")
    /\ UNCHANGED <<threshold, step, iter, old_mask, call, pure, early, lock>>

\* line 234: self.iter = iiter_dil
set_iter(t) ==
    /\ At(t, "234")
    /\ iter' = iiter_dil(thread[t].iiter)
    /\ Goto(t, "235")
    /\ UNCHANGED <<threshold, step, old_mask, new_mask, ndilate, call, pure, early,
                   lock>>

\* lines 235-241 (the thinning reads the fields and writes none), the return,
\* and lock.release()
return_mask(t) ==
    /\ At(t, "235") \/ At(t, "241")
    /\ Leave(t)
    /\ lock' = 0
    /\ UNCHANGED <<sched, ndilate, call, pure, early>>

InitLocked ==
    /\ \E x \in InitialMasks, t \in Thresholds, s \in Steps :
           Constructed(x, t, s)
    /\ delta = None
    /\ p = None
    /\ mask_add = None
    /\ NoPure
    /\ NoThreads
    /\ NoEarly

NextLocked ==
    \E t \in Threads :
        \/ \E i \in Iterations : acquire(t, i)
        \/ test_threshold(t)
        \/ test_epoch(t)
        \/ commit_old(t)
        \/ grow_new(t)
        \/ set_iter(t)
        \/ return_mask(t)

SpecLocked == InitLocked /\ [][NextLocked]_vars

\* ---------------------------------------------------------- EarlyStopping
\* A metric is a number or NaN; the numbers are integers, and every
\* comparison with NaN is false.
Num(v) == [nan |-> FALSE, v |-> v]

NaN == [nan |-> TRUE, v |-> 0]

Metrics == {Num(v) : v \in (0 - MaxMetric) .. MaxMetric} \cup {NaN}

\* The improvement test that also accepts a metric at the margin itself.
is_better_or_equal(a, best) ==
    /\ ~a.nan
    /\ ~best.nan
    /\ IF ~stopper.percentage
       THEN IF stopper.mode = "min"
            THEN a.v <= best.v - stopper.min_delta
            ELSE a.v >= best.v + stopper.min_delta
       ELSE IF stopper.mode = "min"
            THEN 100 * a.v <= 100 * best.v - best.v * stopper.min_delta
            ELSE 100 * a.v >= 100 * best.v + best.v * stopper.min_delta

\* self.is_better as _init_is_better sets it; a < best - best*min_delta/100
\* is compared after multiplying both sides by 100.
is_better(a, best) ==
    /\ ~a.nan
    /\ ~best.nan
    /\ IF ~stopper.percentage
       THEN IF stopper.mode = "min"
            THEN a.v < best.v - stopper.min_delta
            ELSE a.v > best.v + stopper.min_delta
       ELSE IF stopper.mode = "min"
            THEN 100 * a.v < 100 * best.v - best.v * stopper.min_delta
            ELSE 100 * a.v > 100 * best.v + best.v * stopper.min_delta

\* An object whose step is never replaced.
OverriddenNever(patience) == FALSE

\* if patience == 0: self.step = lambda a: False
Overridden(patience) == patience = 0

\* EarlyStopping.__init__
InitEarly ==
    /\ Constructed(Zeros, 0, 1)
    /\ delta = None
    /\ p = None
    /\ mask_add = None
    /\ NoPure
    /\ NoThreads
    /\ \E patience \in 0 .. MaxPatience, max \in BOOLEAN,
          min_delta \in 0 .. MaxMinDelta, percentage \in BOOLEAN :
           stopper = [mode |-> IF max THEN "max" ELSE "min",
                      min_delta |-> min_delta,
                      patience |-> patience,
                      percentage |-> percentage,
                      best |-> None,
                      num_bad_epochs |-> 0]
    /\ metrics = None
    /\ stop = None

\* step(x): the lambda of a patience of 0, or EarlyStopping.step.
es_step(x) ==
    /\ stopper.num_bad_epochs < MaxBadEpochs
    /\ metrics' = x
    /\ IF Overridden(stopper.patience)
       THEN stop' = FALSE /\ UNCHANGED stopper
       ELSE IF stopper.best = None
       THEN stopper' = [stopper EXCEPT !.best = x] /\ stop' = FALSE
       ELSE IF x.nan
       THEN stop' = TRUE /\ UNCHANGED stopper
       ELSE /\ stopper' =
                 IF is_better(x, stopper.best)
                 THEN [stopper EXCEPT !.num_bad_epochs = 0, !.best = x]
                 ELSE [stopper EXCEPT !.num_bad_epochs = @ + 1]
            /\ stop' = (stopper'.num_bad_epochs >= stopper'.patience)
    /\ UNCHANGED <<sched, ndilate, call, pure, conc>>

NextEarly == \E x \in Metrics : es_step(x)

SpecEarly == InitEarly /\ [][NextEarly]_vars

\* ------------------------------------------------------------------ claims
\* a is a sample-wise subset of b.
Subset(a, b) == \A c \in Cells : a[c] # 0 => b[c] # 0

\* The last call was update(i) with i past the warm-up, and it returned.
ThinnedCall == outcome = "returned" /\ iiter > threshold

\* The step is an update call: it starts with no call pending and ends with
\* the call's outcome.
CallStep ==
    /\ outcome \in {"constructed", "released"}
    /\ outcome' \in {"returned", "ZeroDivisionError"}

\* C1 (I1): in every state reachable by update calls with any arguments in
\* any order, old_mask is a sample-wise subset of new_mask.
C1_OldSubsetOfNew == Subset(old_mask, new_mask)

\* After two growths, made by calls out of order, new_mask is strictly larger.
C1_Witness ==
    /\ ndilate >= 2
    /\ ~ordered
    /\ Subset(old_mask, new_mask)
    /\ ~Subset(new_mask, old_mask)

\* C2 (I4): one update call invokes dilate_mask at most once, however many
\* epoch boundaries it skips; a call whose target epoch is already reached
\* invokes it zero times, a call whose target epoch is beyond invokes it once.
C2_SingleGrowthPerEpoch ==
    [][/\ ndilate' <= ndilate + 1
       /\ (CallStep /\ step > 0 /\ iiter' > threshold)
            => IF (iiter' - threshold) \div step + 1 <= iter
               THEN ndilate' = ndilate
               ELSE ndilate' = ndilate + 1]_vars

\* A call skipped from epoch 0 past epoch 2 with one growth, and a later call
\* inside an epoch already reached added none.
C2_Witness ==
    /\ ThinnedCall
    /\ ~ordered
    /\ iter >= 3
    /\ ndilate = 1
    /\ (iiter - threshold) \div step + 1 <= iter

\* C3 (I2, value): with non-decreasing arguments since construction, epoch
\* after update(i) is (i - threshold)//step + 1 when i > threshold, else 0.
C3_EpochValue ==
    (ordered /\ outcome = "returned")
        => iter = IF iiter > threshold
                  THEN (iiter - threshold) \div step + 1
                  ELSE 0

\* Ordered calls that reached the third epoch through three growths.
C3_Witness ==
    /\ ordered
    /\ ThinnedCall
    /\ ndilate >= 3
    /\ iter = (iiter - threshold) \div step + 1

\* C4 (I2, monotonicity): the epoch counter never decreases across a call.
C4_EpochMonotone == [][iter' >= iter]_vars

\* A call of an earlier epoch came after a later one and epoch stayed.
C4_Witness ==
    /\ ThinnedCall
    /\ ~ordered
    /\ (iiter - threshold) \div step + 1 < iter

\* C5 (warm-up identity): update(i) with i <= threshold returns the current
\* old_mask, neither grows nor thins, and leaves old_mask, new_mask, epoch.
C5_WarmupIdentity ==
    [][(CallStep /\ iiter' <= threshold)
         => /\ outcome' = "returned"
            /\ mask_return' = old_mask
            /\ UNCHANGED <<old_mask, new_mask, iter, ndilate>>
            /\ delta' = None
            /\ mask_add' = None]_vars

\* A warm-up call made after a growth: it returned old_mask, not new_mask.
C5_Witness ==
    /\ outcome = "returned"
    /\ iiter <= threshold
    /\ ndilate >= 1
    /\ old_mask # new_mask
    /\ mask_return = old_mask

\* C6: the mask a call returns is a 0/1 mask M with old_mask <= M <= new_mask
\* sample by sample, old_mask and new_mask taken after the call.
C6_ReturnBetweenOldAndNew ==
    outcome = "returned"
        => \A c \in Cells : /\ mask_return[c] \in {0, 1}
                            /\ old_mask[c] <= mask_return[c]
                            /\ mask_return[c] <= new_mask[c]

\* A returned mask strictly between the two stored masks.
C6_Witness ==
    /\ ThinnedCall
    /\ mask_return # old_mask
    /\ mask_return # new_mask
    /\ Subset(old_mask, mask_return)
    /\ Subset(mask_return, new_mask)

EndOfEpoch == ThinnedCall /\ (iiter - threshold) % step = step - 1

C9_NoWriteBack ==
    [][/\ (old_mask' # old_mask \/ new_mask' # new_mask \/ iter' # iter)
            => /\ CallStep
               /\ step > 0
               /\ iiter' > threshold
               /\ (iiter' - threshold) \div step + 1 > iter
       /\ (CallStep /\ outcome = "released" /\ iiter' = iiter)
            => UNCHANGED <<old_mask, new_mask, iter>>]_vars

\* update(i) called twice in a row past the warm-up: one growth in all, and a
\* returned mask that is neither of the stored ones.
C9_Witness ==
    /\ repeated
    /\ ThinnedCall
    /\ ndilate = 1
    /\ mask_return # old_mask
    /\ mask_return # new_mask

\* C10: a scheduler with step = 0 is rejected by the constructor, so no update
\* call runs with step = 0 and none divides by zero.
C10_NoUpdateWithStepZero ==
    outcome # "constructed" => (step # 0 /\ outcome # "ZeroDivisionError")

\* C11: update(iteration) with iteration < 0 is rejected with an explicit
\* failure and never returns a mask as a warm-up call would.
C11_NegativeIterationRejected == ~(outcome = "returned" /\ iiter < 0)

\* C12 as claimed: on a scheduler that has seen only warm-up calls,
\* update(threshold + 1) grows once and hands F.dropout the value 1 - 1/step.
C12_AsClaimed ==
    [][(CallStep /\ ndilate = 0 /\ step > 0 /\ iiter' = threshold + 1)
         => /\ ndilate' = 1
            /\ p' = <<step - 1, step>>]_vars

\* C12 (amended): on a scheduler that has seen only warm-up calls,
\* update(threshold + 1) grows exactly once (old_mask stays the initial mask,
\* new_mask becomes its dilation), hands F.dropout the value
\* 1 - ((1 % step) + 1)/step, which is 1 - 2/step for step >= 2 and 0 for
\* step = 1, and returns the initial mask united with a subset of the delta.
C12_FirstGrowth ==
    [][(CallStep /\ ndilate = 0 /\ step > 0 /\ iiter' = threshold + 1)
         => /\ ndilate' = 1
            /\ old_mask' = old_mask
            /\ new_mask' = dilate_mask(old_mask)
            /\ p' = <<step - ((1 % step) + 1), step>>
            /\ Subset(old_mask, mask_return')
            /\ Subset(mask_return', new_mask')]_vars

\* The first call past the warm-up, after warm-up calls only, with step >= 3:
\* one growth, and some but not all of the delta revealed.
C12_Witness ==
    /\ ThinnedCall
    /\ ordered
    /\ ~repeated
    /\ iiter = threshold + 1
    /\ step >= 3
    /\ ndilate = 1
    /\ p = <<step - 2, step>>
    /\ mask_return # old_mask
    /\ mask_return # new_mask

\* C15 as claimed: for step >= 1 the epoch counter equals the number of
\* growths performed since construction.
C15_AsClaimed == step >= 1 => iter = ndilate

\* C15 (amended): the number of growths performed since construction is at
\* most the epoch counter, and the counter is 0 exactly when there was none.
C15_GrowthsAtMostEpoch == ndilate <= iter /\ (iter = 0 <=> ndilate = 0)

\* Two growths, by calls that skipped epochs: the counter is ahead.
C15_Witness ==
    /\ step >= 1
    /\ ndilate >= 2
    /\ iter > ndilate

\* C16: in a call past the warm-up with step >= 1, 0 <= offset < step and
\* step * reveal_fraction = step - offset - 1, which lies in 0 .. step - 1:
\* it falls by one per iteration of an epoch and is 0 at offset step - 1.
C16_RevealFraction ==
    ThinnedCall
        => LET offset == (iiter - threshold) % step
           IN  /\ step >= 1
               /\ 0 <= offset /\ offset < step
               /\ p[2] = step
               /\ p[1] = step - offset - 1
               /\ 0 <= p[1] /\ p[1] <= step - 1

\* A call at offset 0 of a later epoch of three iterations: the value is 2/3.
C16_Witness ==
    /\ ThinnedCall
    /\ step = 3
    /\ iter >= 2
    /\ (iiter - threshold) % step = 0
    /\ p = <<2, 3>>

\* C18: across any step old_mask and new_mask only gain samples, and a growth
\* makes the previous new_mask the old_mask.
C18_MasksOnlyGrow ==
    [][/\ Subset(old_mask, old_mask')
       /\ Subset(new_mask, new_mask')
       /\ (ndilate' = ndilate + 1 => old_mask' = new_mask)]_vars

\* After two growths old_mask is larger than the mask of the construction
\* and new_mask is larger again.
C18_Witness ==
    /\ ndilate = 2
    /\ old_mask \notin InitialMasks
    /\ Subset(old_mask, new_mask)
    /\ old_mask # new_mask

\* C13: dilate_mask(mask) returns, for every mask, a mask of the same shape
\* and leaves its argument as it was; in every slice along the leading axis
\* an output sample is 1 exactly when an input sample of the same slice in
\* rows r-1..r and columns k-1..k (the 2x2 footprint, the sample itself
\* included) is 1; so the output is a superset of the input.
C13_DilatesEverySlice ==
    [][(outcome = "constructed" /\ outcome' # "constructed")
         => /\ outcome' = "dilated"
            /\ mask' = mask
            /\ mask_res'.shape = mask.shape
            /\ DOMAIN mask_res'.data = DOMAIN mask.data
            /\ \A c \in DOMAIN mask.data :
                   /\ mask_res'.data[c] = 1
                        <=> \E d \in DOMAIN mask.data :
                               /\ SliceOf(d) = SliceOf(c)
                               /\ RowOf(d) \in {RowOf(c) - 1, RowOf(c)}
                               /\ ColOf(d) \in {ColOf(c) - 1, ColOf(c)}
                               /\ mask.data[d] = 1
                   /\ mask.data[c] = 1 => mask_res'.data[c] = 1]_vars

\* The same for the masks that keep three axes under squeeze().
C13_ThreeAxes ==
    [][(outcome = "constructed" /\ outcome' # "constructed"
            /\ Len(squeeze(mask.shape)) = 3)
         => /\ outcome' = "dilated"
            /\ mask' = mask
            /\ mask_res'.shape = mask.shape
            /\ \A c \in DOMAIN mask.data :
                   /\ mask_res'.data[c] = 1
                        <=> \E d \in DOMAIN mask.data :
                               /\ SliceOf(d) = SliceOf(c)
                               /\ RowOf(d) \in {RowOf(c) - 1, RowOf(c)}
                               /\ ColOf(d) \in {ColOf(c) - 1, ColOf(c)}
                               /\ mask.data[d] = 1
                   /\ mask.data[c] = 1 => mask_res'.data[c] = 1]_vars

\* C14: for a mask with k positions revealed in its first time slice and perc
\* in [0, 1], add_rand_mask returns a new mask that is a sample-wise subset
\* of the input, in which exactly int(k * perc) positions revealed in the
\* input's first slice are zero at every time sample and every other
\* position is as in the input; the input is not changed.
C14_DeletesPoints ==
    [][(outcome = "constructed" /\ outcome' = "masked")
         => LET P == PlaneSize(mask.shape)
                T == 0 .. mask.shape[1] - 1
                k == Cardinality({pos \in 0 .. P - 1 : mask.data[pos] = 1})
                Z == {pos \in 0 .. P - 1 :
                         /\ mask.data[pos] = 1
                         /\ \A t \in T : m'.data[t * P + pos] = 0}
            IN  /\ mask' = mask
                /\ m'.shape = mask.shape
                /\ \A c \in DOMAIN mask.data :
                       m'.data[c] # 0 => mask.data[c] # 0
                /\ Cardinality(Z) = (k * perc[1]) \div perc[2]
                /\ \A c \in DOMAIN mask.data :
                       c % P \notin Z => m'.data[c] = mask.data[c]]_vars

\* Three revealed positions of a (time, row, column) mask and perc = 2/3: two
\* of them are deleted at every time sample and the third is kept.
C14_Witness ==
    /\ outcome = "masked"
    /\ Len(mask.shape) = 3
    /\ perc = <<2, 3>>
    /\ Cardinality(points(mask)) = 3
    /\ Cardinality(points(m)) = 1
    /\ \A c \in DOMAIN m.data : m.data[c] = 1 <=> c % PlaneSize(m.shape) \in points(m)

\* C17: when every thread calls update inside one shared lock, every
\* interleaving keeps old_mask a subset of new_mask, and dilate_mask runs at
\* most once per epoch value reached: a thread dilates only for an epoch
\* beyond the stored one, and whenever the lock is free the number of
\* dilations is at most the stored epoch.
C17_LockedCallsGrowOncePerEpoch ==
    [][/\ Subset(old_mask', new_mask')
       /\ \A t \in Threads :
              (At(t, "233") /\ thread'[t].pc = "234")
                  => iiter_dil(thread[t].iiter) > iter
       /\ lock' = 0 => ndilate' <= iter']_vars

\* Two growths have been done under the lock, and a thread that holds the
\* lock is about to return while the other is outside update.
C17_Witness ==
    /\ ndilate = 2
    /\ old_mask # new_mask
    /\ \E t, u \in Threads :
          /\ t # u
          /\ lock = t
          /\ At(t, "235")
          /\ At(u, "idle")

\* The metric a improves on b by more than min_delta (percent of b in
\* percentage mode), downwards in mode min and upwards in mode max.
Improving(a, b) ==
    LET margin == IF stopper.percentage THEN b.v * stopper.min_delta
                  ELSE 100 * stopper.min_delta
    IN  IF stopper.mode = "min" THEN 100 * a.v < 100 * b.v - margin
        ELSE 100 * a.v > 100 * b.v + margin

\* C19: with patience >= 1 and metrics that are never NaN, the first step
\* call records its metric as best and returns False; after it an improving
\* metric sets num_bad_epochs to 0 and becomes best, any other metric adds 1
\* to num_bad_epochs and leaves best; and step returns True exactly when
\* num_bad_epochs >= patience after the call.
C19_StepCountsBadEpochs ==
    [][(early' # early /\ stopper.patience >= 1 /\ ~metrics'.nan
            /\ (stopper.best = None \/ ~stopper.best.nan))
         => IF stopper.best = None
            THEN /\ stopper' = [stopper EXCEPT !.best = metrics']
                 /\ stop' = FALSE
            ELSE /\ IF Improving(metrics', stopper.best)
                    THEN stopper' = [stopper EXCEPT !.num_bad_epochs = 0,
                                                    !.best = metrics']
                    ELSE stopper' = [stopper EXCEPT
                                        !.num_bad_epochs = @ + 1]
                 /\ stop' = (stopper'.num_bad_epochs >= stopper.patience)]_vars

\* A patience of 2 used up: two metrics in a row did not improve on best and
\* step returned True.
C19_Witness ==
    /\ stopper # None
    /\ stopper.patience = 2
    /\ stopper.num_bad_epochs = 2
    /\ stopper.best = Num(0)
    /\ metrics = Num(0)
    /\ stop = TRUE

\* C20: with patience = 0 step returns False for every metric, NaN included,
\* and best and num_bad_epochs keep the values of the construction.
C20_PatienceZeroNeverStops ==
    (stopper # None /\ stopper.patience = 0)
        => /\ stopper.best = None
           /\ stopper.num_bad_epochs = 0
           /\ metrics # None => stop = FALSE

\* step was called with NaN on an object of patience 0 and returned False.
C20_Witness ==
    /\ stopper # None
    /\ stopper.patience = 0
    /\ metrics = NaN
    /\ stop = FALSE

====
